---- MODULE Spec2Model ----
(***************************************************************************)
(* Input generators of the common bands workflow for SIESTA and Fleur.     *)
(*                                                                         *)
(* Python values are modelled as follows.                                  *)
(*   dict            a function whose DOMAIN is the set of keys present    *)
(*   kwargs          a dict; kwargs.get(k, None) is None iff k is absent   *)
(*   'v u' string    the sequence of its whitespace separated tokens, i.e. *)
(*                   what str.split() returns (mesh-cutoff values)         *)
(*   text            a sequence of one-character strings (pao-block)       *)
(*   fdf card        a record head / lines / tail of the pieces the code   *)
(*                   concatenates                                          *)
(*   float           an integer number of units (all values used here are  *)
(*                   whole), printed back by str() as "<n>.0"              *)
(***************************************************************************)
EXTENDS Integers, Sequences, FiniteSets, TLC

VARIABLES
    cls,        \* class of the generator instance
    loaded,     \* content of protocol.yml as yaml.full_load returns it
    protocols,  \* self._protocols of the instance
    pc,         \* "new", "ready", "returned" or "dead" (construction raised)
    op,         \* the method of the last call
    args,       \* its arguments
    exc,        \* the exception it raised, "none" when it returned
    ret,        \* the value it returned
    ext         \* the external calls it made

vars == <<cls, loaded, protocols, pc, op, args, exc, ret, ext>>

(***************************************************************************)
(* Bounds of the model.                                                    *)
(***************************************************************************)
MaxKinds == 2     \* kinds per structure
MaxMagn == 2      \* entries of magnetization_per_site

(***************************************************************************)
(* Python helpers.                                                         *)
(***************************************************************************)
EmptyDict == [k \in {} |-> 0]

Put(d, k, v) == [x \in DOMAIN d \cup {k} |-> IF x = k THEN v ELSE d[x]]

Range(s) == {s[i] : i \in 1..Len(s)}

Reverse(s) == [i \in 1..Len(s) |-> s[Len(s) + 1 - i]]

\* float(token): the tokens that parse as a number, with their value.
FloatTable ==
    ("100" :> 100) @@ ("100.0" :> 100) @@ ("200" :> 200) @@ ("200.0" :> 200)
    @@ ("300" :> 300) @@ ("300.0" :> 300)

IsNumber(tok) == tok \in DOMAIN FloatTable

Float(tok) == FloatTable[tok]

\* str(float), as '{0}'.format(float) prints it.
FloatStr(v) ==
    CASE v = 100 -> "100.0"
      [] v = 200 -> "200.0"
      [] v = 300 -> "300.0"

\* str.replace(old, new) on a text, old not empty.
RECURSIVE StrReplace(_, _, _)
StrReplace(s, old, new) ==
    IF Len(s) < Len(old) THEN s
    ELSE IF SubSeq(s, 1, Len(old)) = old
         THEN new \o StrReplace(SubSeq(s, Len(old) + 1, Len(s)), old, new)
         ELSE <<Head(s)>> \o StrReplace(Tail(s), old, new)

\* The characters of the kind names and element symbols in use.
Chars(name) ==
    CASE name = "C" -> <<"C">>
      [] name = "C1" -> <<"C", "1">>
      [] name = "Si" -> <<"S", "i">>

(***************************************************************************)
(* Structures: a StructureData is known here by the node it is (the one    *)
(* the caller passed, or the one SeeK-Path returned) and by its kinds,     *)
(* whose names are unique within a structure.                              *)
(***************************************************************************)
Kinds ==
    { [name |-> "C", symbol |-> "C"],
      [name |-> "C1", symbol |-> "C"],
      [name |-> "Si", symbol |-> "Si"] }

KindSeqs ==
    UNION { { s \in [1..n -> Kinds] : \A i, j \in 1..n : i # j => s[i].name # s[j].name }
            : n \in 1..MaxKinds }

Structures == { [node |-> "input", kinds |-> ks] : ks \in KindSeqs }

(***************************************************************************)
(* The content of protocol.yml.  A protocol is a dict with the keys        *)
(* parameters, basis, pseudo_family, atomic_heuristics and kpoints, each   *)
(* of which the file may leave out.                                        *)
(***************************************************************************)
ParNoMesh == ("max-scf-iterations" :> 50)

ParMesh(toks) == Put(ParNoMesh, "mesh-cutoff", toks)

BasisPlain == ("pao-basis-size" :> "DZP")

BasisTail == Put(BasisPlain, "pao-split-tail-norm", TRUE)

PaoBlockC == <<"C", " ", "2">>

HeurFull ==
    ("C" :> [parameters |-> ("mesh-cutoff" :> <<"300", "Ry">>),
             basis |-> ("polarization" :> "non-perturbative") @@ ("pao-block" :> PaoBlockC)])
    @@ ("Si" :> [parameters |-> ("mesh-cutoff" :> <<"100.0", "eV">>),
                 basis |-> ("size" :> "DZ") @@ ("split-tail-norm" :> TRUE)])

HeurNoMesh ==
    ("C" :> [basis |-> ("size" :> "SZ") @@ ("pao-block" :> PaoBlockC)])
    @@ ("Si" :> [parameters |-> EmptyDict])

\* Heuristics whose mesh-cutoff is not of the form 'value units'.
HeurNoUnits ==
    ("C" :> [parameters |-> ("mesh-cutoff" :> <<"300">>)])
    @@ ("Si" :> [parameters |-> ("mesh-cutoff" :> <<"100", "Ry">>)])

HeurBad ==
    ("C" :> [parameters |-> ("mesh-cutoff" :> <<"300">>)])
    @@ ("Si" :> [parameters |-> ("mesh-cutoff" :> <<"abc", "Ry">>), basis |-> EmptyDict])

KpDistance == ("distance" :> 2)

KpOffset == Put(KpDistance, "offset", <<0, 0, 0>>)

Protocol(par, bas, fam) == [parameters |-> par, basis |-> bas, pseudo_family |-> fam]

ModerateChoices ==
    { Put(Put(Protocol(ParMesh(<<"200", "Ry">>), BasisPlain, "fam-std"),
              "atomic_heuristics", HeurFull), "kpoints", KpOffset),
      Put(Protocol(ParNoMesh, BasisTail, "fam-std"), "atomic_heuristics", HeurFull),
      Put(Protocol(ParMesh(<<"200", "Ry">>), BasisPlain, "fam-std"), "kpoints", KpDistance),
      Put(Put(Protocol(ParNoMesh, BasisPlain, "fam-std"),
              "atomic_heuristics", HeurNoMesh), "kpoints", KpDistance),
      Put(Protocol(ParNoMesh, BasisPlain, "fam-std"), "atomic_heuristics", HeurNoUnits),
      Put(Protocol(ParMesh(<<"300.0", "eV", "x">>), BasisPlain, "fam-std"),
          "atomic_heuristics", HeurBad) }

Precise ==
    Put(Protocol(ParMesh(<<"100", "Ry">>), BasisPlain, "fam-stringent"),
        "atomic_heuristics", HeurFull)

\* Protocols that __init__ must reject.
InvalidChoices ==
    { [basis |-> BasisPlain, pseudo_family |-> "fam-std"],
      [parameters |-> ParNoMesh, pseudo_family |-> "fam-std"],
      [parameters |-> ParNoMesh, basis |-> BasisPlain],
      Protocol(ParMesh(<<"abc", "Ry">>), BasisPlain, "fam-std"),
      Protocol(ParMesh(<<"200">>), BasisPlain, "fam-std"),
      Protocol(ParMesh(<<>>), BasisPlain, "fam-std"),
      [parameters |-> ParMesh(<<"Ry", "200">>)] }

Registries ==
    { ("moderate" :> m) @@ ("precise" :> Precise) : m \in ModerateChoices }
    \cup { ("moderate" :> Precise) }
    \cup { ("moderate" :> m) @@ ("precise" :> b) : m \in ModerateChoices, b \in InvalidChoices }
    \cup { ("moderate" :> b) @@ ("precise" :> Precise) : b \in InvalidChoices }

\* The order in which dict.items() runs through the registry: file order.
ProtocolOrder == <<"moderate", "precise">>

(***************************************************************************)
(* Python reference semantics.  A dict in use by a call is a pair of the   *)
(* place it lives in and its content: "fresh" for a dict the call made,    *)
(* "registry" for the very dict held by self._protocols.  A store into a   *)
(* dict that lives in the registry changes the registry.                   *)
(***************************************************************************)
\* Mutant: the dict of the registry itself, not a copy of it.
DictAlias(d) == [ref |-> "registry", d |-> d]

\* dict.copy(): a new dict with the same items.
DictCopy(d) == [ref |-> "fresh", d |-> d]

\* obj[k] = v
SetItem(obj, k, v) == [obj EXCEPT !.d = Put(obj.d, k, v)]

\* The registry once the stores of a call into its dict `obj`, taken from
\* self._protocols[key][field], are done.
Commit(reg, key, field, obj) ==
    IF obj.ref = "registry" THEN [reg EXCEPT ![key][field] = obj.d] ELSE reg

(***************************************************************************)
(* SiestaCommonBandsInputGenerator.__init__                                *)
(***************************************************************************)
\* Mutant: the units are not asked for.
MeshCutoffValueOnly(toks) ==
    /\ Len(toks) >= 1
    /\ IsNumber(toks[1])

\* float(s.split()[0]); str(s.split()[1]) raise neither ValueError nor IndexError.
MeshCutoffWellFormed(toks) ==
    /\ Len(toks) >= 1
    /\ IsNumber(toks[1])
    /\ Len(toks) >= 2

\* The body of the validation loop for one protocol: the message it raises
\* with, "ok" when it raises nothing.
ValidateProtocol(v) ==
    IF "parameters" \notin DOMAIN v THEN "no parameters"
    ELSE IF /\ "mesh-cutoff" \in DOMAIN v.parameters
            /\ ~MeshCutoffWellFormed(v.parameters["mesh-cutoff"])
         THEN "wrong mesh-cutoff"
    ELSE IF "basis" \notin DOMAIN v THEN "no basis"
    ELSE IF "pseudo_family" \notin DOMAIN v THEN "no pseudo_family"
    ELSE "ok"

\* The protocols in the order the loop visits them.
ItemsOf(reg) == SelectSeq(ProtocolOrder, LAMBDA k : k \in DOMAIN reg)

\* __init__: the exception raised and the message of raise_invalid.  The
\* base class constructor, called before the loop, is taken to return.
SiestaInit(reg) ==
    LET items == ItemsOf(reg)
        bad == {i \in 1..Len(items) : ValidateProtocol(reg[items[i]]) # "ok"}
    IN  IF bad = {} THEN [exc |-> "none", message |-> "ok", protocol |-> "none"]
        ELSE LET i == CHOOSE j \in bad : \A k \in bad : j <= k
             IN  [exc |-> "RuntimeError",
                  message |-> ValidateProtocol(reg[items[i]]),
                  protocol |-> items[i]]

\* ProtocolRegistry.get_protocol_names / get_default_protocol_name
DefaultProtocol == "moderate"

GetProtocolNames(reg) == DOMAIN reg

(***************************************************************************)
(* SiestaCommonBandsInputGenerator._get_param                              *)
(***************************************************************************)
NoGlob == [t |-> "none"]

\* float(meshcut_glob): meshcut_glob is the global token or an earlier float.
GlobValue(g) == IF g.t = "str" THEN Float(g.s) ELSE g.v

\* '{0}'.format(meshcut_glob)
GlobStr(g) == IF g.t = "str" THEN g.s ELSE FloatStr(g.v)

\* Mutant: the comparison the wrong way round.
ExceedsReversed(cust_meshcut, glob) == cust_meshcut < GlobValue(glob)

\* cust_meshcut > float(meshcut_glob)
Exceeds(cust_meshcut, glob) == cust_meshcut > GlobValue(glob)

\* One pass of the loop over structure.kinds.
ParamStep(acc, kind, heur) ==
    IF acc.exc # "none" THEN acc
    ELSE IF kind.symbol \notin DOMAIN heur THEN acc
    ELSE IF "parameters" \notin DOMAIN heur[kind.symbol] THEN acc
    ELSE LET cust_param == heur[kind.symbol].parameters
         IN  IF "mesh-cutoff" \notin DOMAIN cust_param THEN acc
             ELSE LET toks == cust_param["mesh-cutoff"]
                  IN  IF Len(toks) = 0 \/ ~IsNumber(toks[1])
                      THEN [acc EXCEPT !.exc = "RuntimeError"]
                      ELSE LET cust_meshcut == Float(toks[1])
                           IN  IF acc.glob.t # "none"
                               THEN IF Exceeds(cust_meshcut, acc.glob)
                                    THEN [acc EXCEPT !.glob = [t |-> "float", v |-> cust_meshcut]]
                                    ELSE acc
                               ELSE IF Len(toks) < 2
                                    THEN [acc EXCEPT !.exc = "RuntimeError"]
                                    ELSE [acc EXCEPT !.glob = [t |-> "float", v |-> cust_meshcut],
                                                     !.units = toks[2]]

RECURSIVE ParamLoop(_, _, _)
ParamLoop(acc, kinds, heur) ==
    IF kinds = <<>> THEN acc
    ELSE ParamLoop(ParamStep(acc, Head(kinds), heur), Tail(kinds), heur)

\* _get_param(key, structure): the exception raised and the dict returned.
GetParam(reg, key, structure) ==
    LET parameters == DictCopy(reg[key].parameters)
    IN  IF "atomic_heuristics" \notin DOMAIN reg[key]
        THEN [exc |-> "none", obj |-> parameters]
        ELSE LET glob0 == IF "mesh-cutoff" \in DOMAIN parameters.d
                          THEN [exc |-> "none",
                                glob |-> [t |-> "str", s |-> parameters.d["mesh-cutoff"][1]],
                                units |-> parameters.d["mesh-cutoff"][2]]
                          ELSE [exc |-> "none", glob |-> NoGlob, units |-> "unbound"]
                 acc == ParamLoop(glob0, structure.kinds, reg[key].atomic_heuristics)
             IN  IF acc.exc # "none" THEN [exc |-> acc.exc, obj |-> parameters]
                 ELSE IF acc.glob.t # "none"
                      THEN [exc |-> "none",
                            obj |-> SetItem(parameters, "mesh-cutoff",
                                            <<GlobStr(acc.glob), acc.units>>)]
                      ELSE [exc |-> "none", obj |-> parameters]

(***************************************************************************)
(* SiestaCommonBandsInputGenerator._get_basis                              *)
(***************************************************************************)
\* d[k] = v on a dict that keeps insertion order, as a sequence of items.
OrderedPut(items, k, v) ==
    IF \E i \in 1..Len(items) : items[i].k = k
    THEN [i \in 1..Len(items) |-> IF items[i].k = k THEN [k |-> k, v |-> v] ELSE items[i]]
    ELSE Append(items, [k |-> k, v |-> v])

\* Mutant: the text is stored as the heuristic gives it.
PaoBlockTextAsGiven(kind, text) == text

\* The pao-block text stored for a kind.
PaoBlockText(kind, text) ==
    IF kind.name # kind.symbol
    THEN StrReplace(text, Chars(kind.symbol), Chars(kind.name))
    ELSE text

\* One pass of the loop over structure.kinds.
BasisStep(acc, kind, heur) ==
    IF kind.symbol \notin DOMAIN heur THEN acc
    ELSE IF "basis" \notin DOMAIN heur[kind.symbol] THEN acc
    ELSE LET cust_basis == heur[kind.symbol].basis
         IN  [basis |-> IF "split-tail-norm" \in DOMAIN cust_basis
                        THEN SetItem(acc.basis, "pao-split-tail-norm", TRUE)
                        ELSE acc.basis,
              pol_dict |-> IF "polarization" \in DOMAIN cust_basis
                           THEN OrderedPut(acc.pol_dict, kind.name, cust_basis["polarization"])
                           ELSE acc.pol_dict,
              size_dict |-> IF "size" \in DOMAIN cust_basis
                            THEN OrderedPut(acc.size_dict, kind.name, cust_basis["size"])
                            ELSE acc.size_dict,
              pao_block_dict |-> IF "pao-block" \in DOMAIN cust_basis
                                 THEN OrderedPut(acc.pao_block_dict, kind.name,
                                                 PaoBlockText(kind, cust_basis["pao-block"]))
                                 ELSE acc.pao_block_dict]

RECURSIVE BasisLoop(_, _, _)
BasisLoop(acc, kinds, heur) ==
    IF kinds = <<>> THEN acc
    ELSE BasisLoop(BasisStep(acc, Head(kinds), heur), Tail(kinds), heur)

\* card = '\n' + f'  {k}  {value} \n' for every item + the end of block line
KeyedCard(items, tail) ==
    [head |-> "\n",
     lines |-> [i \in 1..Len(items) |-> <<"  ", items[i].k, "  ", items[i].v, " \n">>],
     tail |-> tail]

\* card = '\n' + f'{value} \n' for every item + the end of block line
ValueCard(items, tail) ==
    [head |-> "\n",
     lines |-> [i \in 1..Len(items) |-> <<items[i].v, " \n">>],
     tail |-> tail]

\* _get_basis(key, structure): the dict returned.
GetBasis(reg, key, structure) ==
    LET basis == DictCopy(reg[key].basis)
    IN  IF "atomic_heuristics" \notin DOMAIN reg[key] THEN basis
        ELSE LET acc == BasisLoop([basis |-> basis, pol_dict |-> <<>>, size_dict |-> <<>>,
                                   pao_block_dict |-> <<>>],
                                  structure.kinds, reg[key].atomic_heuristics)
                 b1 == IF acc.pol_dict # <<>>
                       THEN SetItem(acc.basis, "%block pao-polarization-scheme",
                                    KeyedCard(acc.pol_dict, "%endblock paopolarizationscheme"))
                       ELSE acc.basis
                 b2 == IF acc.size_dict # <<>>
                       THEN SetItem(b1, "%block pao-basis-sizes",
                                    KeyedCard(acc.size_dict, "%endblock paobasissizes"))
                       ELSE b1
             IN  IF acc.pao_block_dict # <<>>
                 THEN SetItem(b2, "%block pao-basis",
                              ValueCard(acc.pao_block_dict, "%endblock pao-basis"))
                 ELSE b2

(***************************************************************************)
(* SiestaCommonBandsInputGenerator._get_kpoints and _get_pseudo_fam        *)
(***************************************************************************)
NoMesh == [set |-> FALSE]

\* _get_kpoints(key, structure): None, or the KpointsData with the cell of
\* the structure and the mesh asked from the density.
GetKpoints(reg, key, structure) ==
    IF "kpoints" \in DOMAIN reg[key]
    THEN LET kp_dict == reg[key].kpoints
         IN  [set |-> TRUE,
              cell |-> structure,
              density |-> IF "offset" \in DOMAIN kp_dict
                          THEN [distance |-> kp_dict["distance"], offset |-> kp_dict["offset"]]
                          ELSE [distance |-> kp_dict["distance"]]]
    ELSE NoMesh

\* Mutant: the family of the default protocol, whatever the key.
GetPseudoFamOfDefault(reg, key) == [node |-> "Str", value |-> reg["moderate"].pseudo_family]

\* _get_pseudo_fam(key): the orm.Str node of the family name.
GetPseudoFam(reg, key) == [node |-> "Str", value |-> reg[key].pseudo_family]

(***************************************************************************)
(* SiestaCommonBandsInputGenerator._construct_builder                      *)
(***************************************************************************)
Given(kwargs, k) == k \in DOMAIN kwargs

\* orm.Dict(dict=d), orm.load_code(label)
OrmDict(d) == [node |-> "Dict", dict |-> d]

LoadCode(label) == [node |-> "Code", label |-> label]

\* What seekpath_explicit_kp_path may return for a structure: a new
\* structure node, with the kinds as they were or reordered, and the path.
SeekpathResults(structure, parameters) ==
    { [structure |-> [node |-> "seekpath", kinds |-> ks],
       kpoints |-> [node |-> "seekpath", path_of |-> structure, parameters |-> parameters]]
      : ks \in {structure.kinds, Reverse(structure.kinds)} }

\* The protocol in use: the default one when the name is not implemented.
ResolveProtocol(reg, protocol) ==
    IF protocol \notin GetProtocolNames(reg) THEN DefaultProtocol ELSE protocol

\* Mutant: the structure SeeK-Path returned is dropped.
ResolveKpathKeepsInput(kwargs, res) ==
    IF ~Given(kwargs, "bands_kpoints")
    THEN [structure |-> kwargs.structure,
          bandskpoints |-> res.kpoints,
          seekpath |-> <<[structure |-> kwargs.structure,
                          parameters |-> OrmDict(kwargs.seekpath_parameters),
                          result |-> res]>>,
          exc |-> IF Given(kwargs, "parent_folder") THEN "ValueError" ELSE "none"]
    ELSE [structure |-> kwargs.structure,
          bandskpoints |-> kwargs.bands_kpoints,
          seekpath |-> <<>>,
          exc |-> "none"]

\* Mutant: the restart is refused only when SeeK-Path changed the kinds.
ResolveKpathIfChanged(kwargs, res) ==
    IF ~Given(kwargs, "bands_kpoints")
    THEN [structure |-> res.structure,
          bandskpoints |-> res.kpoints,
          seekpath |-> <<[structure |-> kwargs.structure,
                          parameters |-> OrmDict(kwargs.seekpath_parameters),
                          result |-> res]>>,
          exc |-> IF /\ Given(kwargs, "parent_folder")
                     /\ res.structure.kinds # kwargs.structure.kinds
                  THEN "ValueError" ELSE "none"]
    ELSE [structure |-> kwargs.structure,
          bandskpoints |-> kwargs.bands_kpoints,
          seekpath |-> <<>>,
          exc |-> "none"]

\* The band k-points and the structure they belong to; `res` is what
\* SeeK-Path returns if it is called.
ResolveKpath(kwargs, res) ==
    IF ~Given(kwargs, "bands_kpoints")
    THEN [structure |-> res.structure,
          bandskpoints |-> res.kpoints,
          seekpath |-> <<[structure |-> kwargs.structure,
                          parameters |-> OrmDict(kwargs.seekpath_parameters),
                          result |-> res]>>,
          exc |-> IF Given(kwargs, "parent_folder") THEN "ValueError" ELSE "none"]
    ELSE [structure |-> kwargs.structure,
          bandskpoints |-> kwargs.bands_kpoints,
          seekpath |-> <<>>,
          exc |-> "none"]

\* Mutant: the sites are numbered as enumerate() counts them, from 0.
SpinCardFromZero(magnetization_per_site) ==
    [head |-> "\n",
     lines |-> [i \in 1..Len(magnetization_per_site) |->
                   <<" ", i - 1, " ", magnetization_per_site[i], " \n">>],
     tail |-> "%endblock dm-init-spin"]

\* in_spin_card: '\n', f' {i+1} {magn} \n' for every site, the end of block line
SpinCard(magnetization_per_site) ==
    [head |-> "\n",
     lines |-> [i \in 1..Len(magnetization_per_site) |->
                   <<" ", i, " ", magnetization_per_site[i], " \n">>],
     tail |-> "%endblock dm-init-spin"]

\* The spin options written into the parameters, and the warnings issued.
SpinOptions(parameters, kwargs) ==
    LET p1 == IF kwargs.spin_type = "COLLINEAR"
              THEN SetItem(parameters, "spin", "polarized")
              ELSE parameters
    IN  IF Given(kwargs, "magnetization_per_site")
        THEN [obj |-> IF kwargs.spin_type = "COLLINEAR"
                      THEN SetItem(p1, "%block dm-init-spin",
                                   SpinCard(kwargs.magnetization_per_site))
                      ELSE p1,
              warnings |-> IF kwargs.spin_type = "NONE" THEN 1 ELSE 0]
        ELSE [obj |-> p1, warnings |-> 0]

\* The builder filled from the resolved inputs; `options` and `code` come
\* from engines['bands'].
FillBuilder(structure, basis, parameters, kpoints_mesh, pseudo_family, engb, bandskpoints, kwargs) ==
    LET b1 == ("structure" :> structure)
              @@ ("basis" :> OrmDict(basis))
              @@ ("parameters" :> OrmDict(parameters))
        b2 == IF kpoints_mesh.set THEN Put(b1, "kpoints", kpoints_mesh) ELSE b1
        b3 == Put(Put(Put(Put(b2, "pseudo_family", pseudo_family),
                          "options", OrmDict(engb["options"])),
                      "code", LoadCode(engb["code"])),
                  "bandskpoints", bandskpoints)
    IN  IF Given(kwargs, "parent_folder")
        THEN Put(b3, "parent_calc_folder", kwargs.parent_folder)
        ELSE b3

NoCalls == [seekpath |-> <<>>, get_builder |-> 0, warnings |-> 0]

Raised(e, reg, calls) == [exc |-> e, ret |-> EmptyDict, protocols |-> reg, ext |-> calls]

\* _construct_builder(**kwargs) on an instance with registry `reg`, in a
\* database holding the pseudo families `families`, with SeeK-Path
\* answering `res`: the exception or the builder, the registry afterwards
\* and the external calls made.
SiestaConstructBuilder(reg, kwargs, families, res) ==
    LET protocol == ResolveProtocol(reg, kwargs.protocol)
        unknown == IF protocol # kwargs.protocol THEN 1 ELSE 0
    IN  IF "bands" \notin DOMAIN kwargs.engines
        THEN Raised("ValueError", reg, [NoCalls EXCEPT !.warnings = unknown])
        ELSE IF reg[protocol].pseudo_family \notin families
        THEN Raised("ValueError", reg, [NoCalls EXCEPT !.warnings = unknown])
        ELSE
        LET kp == ResolveKpath(kwargs, res)
            calls1 == [NoCalls EXCEPT !.warnings = unknown, !.seekpath = kp.seekpath]
        IN  IF kp.exc # "none" THEN Raised(kp.exc, reg, calls1)
            ELSE
            LET kpoints_mesh == GetKpoints(reg, protocol, kp.structure)
                par == GetParam(reg, protocol, kp.structure)
            IN  IF par.exc # "none" THEN Raised(par.exc, reg, calls1)
                ELSE
                LET spin == SpinOptions(par.obj, kwargs)
                    reg1 == Commit(reg, protocol, "parameters", spin.obj)
                    basis == GetBasis(reg1, protocol, kp.structure)
                    reg2 == Commit(reg1, protocol, "basis", basis)
                    pseudo_family == GetPseudoFam(reg2, protocol)
                    engb == kwargs.engines["bands"]
                    calls2 == [calls1 EXCEPT !.warnings = @ + spin.warnings,
                                             !.get_builder = 1]
                IN  IF "options" \notin DOMAIN engb \/ "code" \notin DOMAIN engb
                    THEN Raised("KeyError", reg2, calls2)
                    ELSE [exc |-> "none",
                          ret |-> FillBuilder(kp.structure, basis.d, spin.obj.d, kpoints_mesh,
                                              pseudo_family, engb, kp.bandskpoints, kwargs),
                          protocols |-> reg2,
                          ext |-> calls2]

(***************************************************************************)
(* FleurCommonBandsInputGenerator._construct_builder                       *)
(***************************************************************************)
FleurProcessType == "aiida.calculations:fleur.fleur"

\* Mutant: any calculation of the fleur plugin is taken.
IsFleurPluginCalculation(calc) ==
    calc.process_type \in {FleurProcessType, "aiida.calculations:fleur.inpgen"}

\* The check that the parent calculation is a FleurCalculation.
IsFleurCalculation(calc) == calc.process_type = FleurProcessType

\* _construct_builder(**kwargs): parent_folder carries the calculation that
\* created it, whose restart builder holds its code and its options.
FleurConstructBuilder(kwargs) ==
    LET parent_fleur_calc == kwargs.parent_folder.creator
    IN  IF ~IsFleurCalculation(parent_fleur_calc)
        THEN [exc |-> "ValueError", ret |-> EmptyDict, ext |-> NoCalls]
        ELSE
        LET b0 == ("options" :> OrmDict(parent_fleur_calc.options))
                  @@ ("fleur" :> parent_fleur_calc.code)
                  @@ ("kpoints" :> kwargs.bands_kpoints)
                  @@ ("remote" :> kwargs.parent_folder)
                  @@ ("wf_parameters" :> OrmDict(("kpath" :> "skip")))
            calls == [NoCalls EXCEPT !.get_builder = 1]
        IN  IF ~Given(kwargs, "engines")
            THEN [exc |-> "TypeError", ret |-> EmptyDict, ext |-> calls]
            ELSE IF "bands" \notin DOMAIN kwargs.engines
            THEN [exc |-> "ValueError", ret |-> EmptyDict, ext |-> calls]
            ELSE
            LET engb == kwargs.engines["bands"]
                b1 == IF "code" \in DOMAIN engb
                      THEN Put(b0, "code", LoadCode(engb["code"]))
                      ELSE b0
                b2 == IF "options" \in DOMAIN engb
                      THEN Put(b1, "options", OrmDict(engb["options"]))
                      ELSE b1
            IN  [exc |-> "none", ret |-> b2, ext |-> calls]

(***************************************************************************)
(* The inputs the calls are made with.                                     *)
(***************************************************************************)
\* An optional keyword: <<>> when left out, <<v>> when given.
Opt(S) == {<<>>} \cup {<<v>> : v \in S}

WithOpt(d, k, o) == IF o = <<>> THEN d ELSE Put(d, k, o[1])

MagnSeqs == UNION { [1..n -> {1, -1}] : n \in 0..MaxMagn }

EngineOptions == ("resources" :> 1)

EngineDicts(code) ==
    { EmptyDict, ("code" :> code), ("options" :> EngineOptions),
      ("code" :> code) @@ ("options" :> EngineOptions) }

SiestaEngines ==
    { EmptyDict,
      ("bands" :> ("code" :> "siesta@cluster")),
      ("bands" :> (("code" :> "siesta@cluster") @@ ("options" :> EngineOptions))) }

ProtocolArgs == {"moderate", "precise", "fast"}

SiestaKwargs ==
    { WithOpt(WithOpt(WithOpt(
          [structure |-> st, engines |-> en, protocol |-> pr, spin_type |-> sp,
           seekpath_parameters |-> ("symprec" :> 1)],
          "magnetization_per_site", m), "parent_folder", f), "bands_kpoints", k)
      : st \in Structures, en \in SiestaEngines, pr \in ProtocolArgs,
        sp \in {"NONE", "COLLINEAR"}, m \in Opt(MagnSeqs),
        f \in Opt({"remote-1"}), k \in Opt({"kpath-1"}) }

\* The pseudo families loaded in the database.
FamilySets == { {}, {"fam-std", "fam-stringent"} }

NoSeekpath == [structure |-> [node |-> "none", kinds |-> <<>>], kpoints |-> [node |-> "none"]]

ParentFolders ==
    { [node |-> "remote-1",
       creator |-> [process_type |-> pt,
                    code |-> LoadCode("fleur@parent"),
                    options |-> ("resources" :> 4)]]
      : pt \in {FleurProcessType, "aiida.calculations:fleur.inpgen",
                "aiida.calculations:siesta.siesta"} }

FleurKwargs ==
    { WithOpt([parent_folder |-> f, bands_kpoints |-> k], "engines", e)
      : f \in ParentFolders, k \in {"kpath-1", "kpath-2"},
        e \in Opt({EmptyDict} \cup {("bands" :> d) : d \in EngineDicts("fleur@cluster")}) }

(***************************************************************************)
(* The state machine: one generator instance, one call at a time.          *)
(***************************************************************************)
Siesta == "SiestaCommonBandsInputGenerator"

Fleur == "FleurCommonBandsInputGenerator"

Idle ==
    /\ op = "none"
    /\ args = EmptyDict
    /\ exc = "none"
    /\ ret = EmptyDict
    /\ ext = NoCalls

Init ==
    /\ cls \in {Siesta, Fleur}
    /\ loaded \in IF cls = Siesta THEN Registries ELSE {EmptyDict}
    /\ protocols = EmptyDict
    /\ pc = IF cls = Siesta THEN "new" ELSE "ready"
    /\ Idle

\* SiestaCommonBandsInputGenerator(): _initialize_protocols, then validation.
Construct ==
    /\ cls = Siesta
    /\ pc = "new"
    /\ LET r == SiestaInit(loaded)
       IN  /\ protocols' = loaded
           /\ pc' = IF r.exc = "none" THEN "returned" ELSE "dead"
           /\ op' = "__init__"
           /\ exc' = r.exc
           /\ ret' = [message |-> r.message, protocol |-> r.protocol]
    /\ UNCHANGED <<cls, loaded, args, ext>>

CallConstructBuilder ==
    /\ cls = Siesta
    /\ pc = "ready"
    /\ \E kwargs \in SiestaKwargs, families \in FamilySets :
         \E res \in IF Given(kwargs, "bands_kpoints") THEN {NoSeekpath}
                    ELSE SeekpathResults(kwargs.structure,
                                         OrmDict(kwargs.seekpath_parameters)) :
           LET r == SiestaConstructBuilder(protocols, kwargs, families, res)
           IN  /\ op' = "_construct_builder"
               /\ args' = Put(kwargs, "families", families)
               /\ exc' = r.exc
               /\ ret' = r.ret
               /\ ext' = r.ext
               /\ protocols' = r.protocols
    /\ pc' = "returned"
    /\ UNCHANGED <<cls, loaded>>

CallGetParam ==
    /\ cls = Siesta
    /\ pc = "ready"
    /\ \E key \in DOMAIN protocols, structure \in Structures :
         LET r == GetParam(protocols, key, structure)
         IN  /\ op' = "_get_param"
             /\ args' = [key |-> key, structure |-> structure]
             /\ exc' = r.exc
             /\ ret' = IF r.exc = "none" THEN r.obj.d ELSE EmptyDict
             /\ protocols' = IF r.exc = "none"
                             THEN Commit(protocols, key, "parameters", r.obj)
                             ELSE protocols
    /\ pc' = "returned"
    /\ UNCHANGED <<cls, loaded, ext>>

CallGetBasis ==
    /\ cls = Siesta
    /\ pc = "ready"
    /\ \E key \in DOMAIN protocols, structure \in Structures :
         LET r == GetBasis(protocols, key, structure)
         IN  /\ op' = "_get_basis"
             /\ args' = [key |-> key, structure |-> structure]
             /\ exc' = "none"
             /\ ret' = r.d
             /\ protocols' = Commit(protocols, key, "basis", r)
    /\ pc' = "returned"
    /\ UNCHANGED <<cls, loaded, ext>>

CallGetKpoints ==
    /\ cls = Siesta
    /\ pc = "ready"
    /\ \E key \in DOMAIN protocols, structure \in Structures :
         /\ op' = "_get_kpoints"
         /\ args' = [key |-> key, structure |-> structure]
         /\ exc' = "none"
         /\ ret' = GetKpoints(protocols, key, structure)
    /\ pc' = "returned"
    /\ UNCHANGED <<cls, loaded, protocols, ext>>

CallGetPseudoFam ==
    /\ cls = Siesta
    /\ pc = "ready"
    /\ \E key \in DOMAIN protocols :
         /\ op' = "_get_pseudo_fam"
         /\ args' = [key |-> key]
         /\ exc' = "none"
         /\ ret' = GetPseudoFam(protocols, key)
    /\ pc' = "returned"
    /\ UNCHANGED <<cls, loaded, protocols, ext>>

FleurCallConstructBuilder ==
    /\ cls = Fleur
    /\ pc = "ready"
    /\ \E kwargs \in FleurKwargs :
         LET r == FleurConstructBuilder(kwargs)
         IN  /\ op' = "_construct_builder"
             /\ args' = kwargs
             /\ exc' = r.exc
             /\ ret' = r.ret
             /\ ext' = r.ext
    /\ pc' = "returned"
    /\ UNCHANGED <<cls, loaded, protocols>>

\* The caller takes the result; the instance is ready for the next call.
Return ==
    /\ pc = "returned"
    /\ pc' = "ready"
    /\ op' = "none"
    /\ args' = EmptyDict
    /\ exc' = "none"
    /\ ret' = EmptyDict
    /\ ext' = NoCalls
    /\ UNCHANGED <<cls, loaded, protocols>>

Next ==
    \/ Construct
    \/ CallConstructBuilder
    \/ CallGetParam
    \/ CallGetBasis
    \/ CallGetKpoints
    \/ CallGetPseudoFam
    \/ FleurCallConstructBuilder
    \/ Return

Spec == Init /\ [][Next]_vars

(***************************************************************************)
(* Properties.                                                             *)
(***************************************************************************)
Max(S) == CHOOSE m \in S : \A x \in S : x <= m

SiestaInstance == cls = Siesta /\ pc \in {"ready", "returned"}

SiestaReturned(method) ==
    /\ cls = Siesta
    /\ pc = "returned"
    /\ op = method
    /\ exc = "none"

\* A protocol that the constructor has to reject, stated from its keys.
InvalidProtocol(v) ==
    \/ "parameters" \notin DOMAIN v
    \/ "basis" \notin DOMAIN v
    \/ "pseudo_family" \notin DOMAIN v
    \/ /\ "parameters" \in DOMAIN v
       /\ "mesh-cutoff" \in DOMAIN v.parameters
       /\ LET toks == v.parameters["mesh-cutoff"]
          IN  \/ Len(toks) < 2
              \/ toks[1] \notin DOMAIN FloatTable

\* C1: constructing the SIESTA generator raises RuntimeError if and only if
\* some protocol of the loaded registry lacks `parameters`, `basis` or
\* `pseudo_family` or has a mesh-cutoff that is not '<number> <units>'; it
\* succeeds otherwise, so an instance never holds an invalid protocol.
C1_ConstructionValidatesRegistry ==
    /\ (cls = Siesta /\ pc # "new") =>
          /\ (pc = "dead") <=> (\E k \in DOMAIN loaded : InvalidProtocol(loaded[k]))
          /\ (pc = "dead") => exc = "RuntimeError"
          /\ (pc # "dead" /\ op = "__init__") => exc = "none"
    /\ SiestaInstance =>
          /\ protocols = loaded
          /\ \A k \in DOMAIN protocols : ~InvalidProtocol(protocols[k])

C1_Witness ==
    /\ cls = Siesta
    /\ pc = "dead"
    /\ exc = "RuntimeError"
    /\ ret.protocol = "precise"
    /\ ret.message = "wrong mesh-cutoff"
    /\ ~InvalidProtocol(loaded["moderate"])
    /\ loaded["precise"].parameters["mesh-cutoff"] = <<"200">>

\* The kinds of a structure whose element has a heuristic of the section
\* `sect` that defines `item`, in the order of the structure.
Contributing(heur, kinds, sect, item) ==
    SelectSeq(kinds, LAMBDA k : /\ k.symbol \in DOMAIN heur
                                /\ sect \in DOMAIN heur[k.symbol]
                                /\ item \in DOMAIN heur[k.symbol][sect])

\* C2: with atomic_heuristics, the mesh-cutoff returned by _get_param has
\* as value the maximum of the global value (if any) and the values of the
\* heuristics of the elements present in the structure, whatever the order
\* of the kinds; its units are the global ones, or else those of the first
\* kind whose heuristic defines a mesh-cutoff; there is no mesh-cutoff when
\* nothing defines one; every other global parameter is returned unchanged.
C2_MeshCutoffIsMaximum ==
    (SiestaReturned("_get_param") /\ "atomic_heuristics" \in DOMAIN protocols[args.key]) =>
        LET glob == protocols[args.key].parameters
            heur == protocols[args.key].atomic_heuristics
            kinds == args.structure.kinds
            contrib == Contributing(heur, kinds, "parameters", "mesh-cutoff")
            custom == { Float(heur[k.symbol].parameters["mesh-cutoff"][1]) : k \in Range(contrib) }
            values == IF "mesh-cutoff" \in DOMAIN glob
                      THEN custom \cup {Float(glob["mesh-cutoff"][1])}
                      ELSE custom
            other == GetParam(protocols, args.key, [args.structure EXCEPT !.kinds = Reverse(kinds)])
        IN  /\ DOMAIN ret \ {"mesh-cutoff"} = DOMAIN glob \ {"mesh-cutoff"}
            /\ \A k \in DOMAIN glob \ {"mesh-cutoff"} : ret[k] = glob[k]
            /\ ("mesh-cutoff" \in DOMAIN ret) <=> (values # {})
            /\ values # {} =>
                  /\ Len(ret["mesh-cutoff"]) = 2
                  /\ ret["mesh-cutoff"][1] \in DOMAIN FloatTable
                  /\ Float(ret["mesh-cutoff"][1]) = Max(values)
                  /\ ret["mesh-cutoff"][2] =
                        IF "mesh-cutoff" \in DOMAIN glob
                        THEN glob["mesh-cutoff"][2]
                        ELSE heur[contrib[1].symbol].parameters["mesh-cutoff"][2]
                  /\ other.exc = "none" =>
                        Float(other.obj.d["mesh-cutoff"][1]) = Float(ret["mesh-cutoff"][1])

C2_Witness ==
    /\ SiestaReturned("_get_param")
    /\ "atomic_heuristics" \in DOMAIN protocols[args.key]
    /\ "mesh-cutoff" \in DOMAIN protocols[args.key].parameters
    /\ protocols[args.key].parameters["mesh-cutoff"] = <<"200", "Ry">>
    /\ Len(args.structure.kinds) = 2
    /\ args.structure.kinds[1].symbol = "Si"
    /\ args.structure.kinds[2].symbol = "C"
    /\ ret["mesh-cutoff"] = <<"300.0", "Ry">>

\* The protocol a call of _construct_builder works with.
UsedProtocol == IF args.protocol \in DOMAIN protocols THEN args.protocol ELSE "moderate"

\* C3: _construct_builder takes the band k-points by exactly one route.
\* With bands_kpoints SeeK-Path is never called and the builder carries the
\* given k-points and the input structure; without, SeeK-Path is called once
\* with the input structure and seekpath_parameters and the builder carries
\* the k-points and the structure it returned.  Either way the structure on
\* the builder is the one the mesh cell, the parameters and the basis were
\* made from.
C3_KpathRoutes ==
    /\ (cls = Siesta /\ pc = "returned" /\ op = "_construct_builder") =>
          /\ Len(ext.seekpath) <= 1
          /\ Given(args, "bands_kpoints") => ext.seekpath = <<>>
    /\ SiestaReturned("_construct_builder") =>
          /\ Given(args, "bands_kpoints") =>
                /\ ret.bandskpoints = args.bands_kpoints
                /\ ret.structure = args.structure
          /\ ~Given(args, "bands_kpoints") =>
                /\ Len(ext.seekpath) = 1
                /\ ext.seekpath[1].structure = args.structure
                /\ ext.seekpath[1].parameters = OrmDict(args.seekpath_parameters)
                /\ ret.bandskpoints = ext.seekpath[1].result.kpoints
                /\ ret.structure = ext.seekpath[1].result.structure
          /\ "kpoints" \in DOMAIN ret => ret.kpoints.cell = ret.structure
          /\ ret.basis.dict = GetBasis(protocols, UsedProtocol, ret.structure).d
          /\ LET par == GetParam(protocols, UsedProtocol, ret.structure).obj.d
             IN  \A k \in DOMAIN par : ret.parameters.dict[k] = par[k]

C3_Witness ==
    /\ SiestaReturned("_construct_builder")
    /\ ~Given(args, "bands_kpoints")
    /\ Len(ext.seekpath) = 1
    /\ ret.structure.node = "seekpath"
    /\ ret.structure.kinds # args.structure.kinds
    /\ "kpoints" \in DOMAIN ret
    /\ "%block pao-basis" \in DOMAIN ret.basis.dict

\* C4: a restart never goes through SeeK-Path.  With parent_folder and
\* without bands_kpoints the call ends with a ValueError and returns no
\* builder, whether or not SeeK-Path changed the structure; so a builder
\* with parent_calc_folder has the given bands_kpoints and the caller's
\* structure.
C4_NoRestartThroughSeekpath ==
    (cls = Siesta /\ pc = "returned" /\ op = "_construct_builder") =>
        /\ (Given(args, "parent_folder") /\ ~Given(args, "bands_kpoints")) =>
              /\ exc = "ValueError"
              /\ ret = EmptyDict
        /\ (exc = "none" /\ "parent_calc_folder" \in DOMAIN ret) =>
              /\ Given(args, "bands_kpoints")
              /\ ext.seekpath = <<>>
              /\ ret.bandskpoints = args.bands_kpoints
              /\ ret.structure = args.structure

C4_Witness ==
    /\ cls = Siesta
    /\ pc = "returned"
    /\ op = "_construct_builder"
    /\ Given(args, "parent_folder")
    /\ ~Given(args, "bands_kpoints")
    /\ exc = "ValueError"
    /\ Len(ext.seekpath) = 1
    /\ ext.seekpath[1].result.structure.kinds = args.structure.kinds

\* C5: a returned builder has structure, basis, parameters, pseudo_family,
\* options, code and bandskpoints; pseudo_family is the family of the
\* protocol used, options and code are those of engines['bands']; kpoints
\* is set iff that protocol has a kpoints section; parent_calc_folder is set
\* iff parent_folder was given, and is that folder.
C5_BuilderFields ==
    SiestaReturned("_construct_builder") =>
        /\ {"structure", "basis", "parameters", "pseudo_family", "options", "code",
            "bandskpoints"} \subseteq DOMAIN ret
        /\ ret.pseudo_family.value = protocols[UsedProtocol].pseudo_family
        /\ ret.options.dict = args.engines["bands"]["options"]
        /\ ret.code.label = args.engines["bands"]["code"]
        /\ ("kpoints" \in DOMAIN ret) <=> ("kpoints" \in DOMAIN protocols[UsedProtocol])
        /\ ("parent_calc_folder" \in DOMAIN ret) <=> Given(args, "parent_folder")
        /\ Given(args, "parent_folder") => ret.parent_calc_folder = args.parent_folder

C5_Witness ==
    /\ SiestaReturned("_construct_builder")
    /\ args.protocol = "precise"
    /\ "precise" \in DOMAIN protocols
    /\ ret.pseudo_family.value = "fam-stringent"
    /\ "kpoints" \notin DOMAIN ret
    /\ "parent_calc_folder" \in DOMAIN ret

\* d without the key k
Without(d, k) == [x \in DOMAIN d \ {k} |-> d[x]]

\* C8: in the parameters of a returned builder, spin is 'polarized' iff
\* spin_type is COLLINEAR; the dm-init-spin block is there iff spin_type is
\* COLLINEAR and magnetization_per_site is given, and then has one line per
\* entry, in order, numbered from 1, before the end of block line.  With
\* spin_type NONE a given magnetization_per_site changes nothing.
C8_SpinOptions ==
    SiestaReturned("_construct_builder") =>
        LET p == ret.parameters.dict
            collinear == args.spin_type = "COLLINEAR"
            magn == Given(args, "magnetization_per_site")
        IN  /\ ("spin" \in DOMAIN p) <=> collinear
            /\ collinear => p["spin"] = "polarized"
            /\ ("%block dm-init-spin" \in DOMAIN p) <=> (collinear /\ magn)
            /\ (collinear /\ magn) =>
                  LET card == p["%block dm-init-spin"]
                      m == args.magnetization_per_site
                  IN  /\ Len(card.lines) = Len(m)
                      /\ \A i \in 1..Len(m) : /\ card.lines[i][2] = i
                                              /\ card.lines[i][4] = m[i]
                      /\ card.tail = "%endblock dm-init-spin"
            /\ (~collinear /\ magn) =>
                  /\ ext.warnings >= 1
                  /\ LET res == IF ext.seekpath = <<>> THEN NoSeekpath
                                ELSE ext.seekpath[1].result
                         plain == SiestaConstructBuilder(
                                      protocols,
                                      Without(Without(args, "families"), "magnetization_per_site"),
                                      args.families, res)
                     IN  /\ plain.exc = "none"
                         /\ plain.ret.parameters = ret.parameters

C8_Witness ==
    /\ SiestaReturned("_construct_builder")
    /\ args.spin_type = "COLLINEAR"
    /\ Given(args, "magnetization_per_site")
    /\ args.magnetization_per_site = <<1, -1>>
    /\ ret.parameters.dict["spin"] = "polarized"
    /\ Len(ret.parameters.dict["%block dm-init-spin"].lines) = 2

FleurCalled == cls = Fleur /\ pc = "returned" /\ op = "_construct_builder"

\* C6: the Fleur _construct_builder updates the code and the options from
\* engines['bands']: with `code` there the builder runs that code, with
\* `options` there it has those options; for whichever is absent, and when
\* engines is not given at all, it keeps the value of the parent
\* FleurCalculation and still returns a builder.
C6_EnginesUpdateCodeAndOptions ==
    (FleurCalled /\ args.parent_folder.creator.process_type = FleurProcessType) =>
        LET parent == args.parent_folder.creator
            engb == IF Given(args, "engines") THEN args.engines["bands"] ELSE EmptyDict
        IN  (Given(args, "engines") => "bands" \in DOMAIN args.engines) =>
                /\ exc = "none"
                /\ ret.fleur = IF "code" \in DOMAIN engb THEN LoadCode(engb["code"])
                               ELSE parent.code
                /\ ret.options = IF "options" \in DOMAIN engb THEN OrmDict(engb["options"])
                                 ELSE OrmDict(parent.options)

\* C7: the Fleur _construct_builder returns a builder only for a
\* parent_folder created by a FleurCalculation; for any other creator it
\* raises ValueError before a builder is made.  A returned builder has the
\* given parent_folder as remote, the given bands_kpoints as kpoints and
\* wf_parameters {'kpath': 'skip'}.
C7_FleurParentOnly ==
    FleurCalled =>
        /\ args.parent_folder.creator.process_type # FleurProcessType =>
              /\ exc = "ValueError"
              /\ ext.get_builder = 0
        /\ exc = "none" =>
              /\ args.parent_folder.creator.process_type = FleurProcessType
              /\ ret.remote = args.parent_folder
              /\ ret.kpoints = args.bands_kpoints
              /\ ret.wf_parameters.dict = ("kpath" :> "skip")

C7_Witness ==
    /\ FleurCalled
    /\ args.parent_folder.creator.process_type = "aiida.calculations:fleur.inpgen"
    /\ exc = "ValueError"
    /\ ext.get_builder = 0

\* C9: _get_basis returns the global basis with the overrides of the kinds
\* whose element has a `basis` heuristic.  Each of the three blocks is there
\* iff some such kind's heuristic defines polarization, size or pao-block,
\* and then has one entry per contributing kind, under the kind name (the
\* pao-block text with the symbol replaced by the kind name when they
\* differ); pao-split-tail-norm is True iff a contributing heuristic defines
\* split-tail-norm or the global basis sets it.  Without atomic_heuristics,
\* or when no kind matches one, the result is the global basis.
C9_BasisOverrides ==
    SiestaReturned("_get_basis") =>
        LET glob == protocols[args.key].basis
            heur == IF "atomic_heuristics" \in DOMAIN protocols[args.key]
                    THEN protocols[args.key].atomic_heuristics
                    ELSE EmptyDict
            kinds == args.structure.kinds
            on(item) == Range(Contributing(heur, kinds, "basis", item))
            matched == {k \in Range(kinds) : /\ k.symbol \in DOMAIN heur
                                             /\ "basis" \in DOMAIN heur[k.symbol]}
            blocks == {"%block pao-polarization-scheme", "%block pao-basis-sizes",
                       "%block pao-basis"}
            keyed(block, item) ==
                /\ (block \in DOMAIN ret) <=> (on(item) # {})
                /\ on(item) # {} =>
                      /\ Len(ret[block].lines) = Cardinality(on(item))
                      /\ \A k \in on(item) :
                            \E i \in 1..Len(ret[block].lines) :
                               /\ ret[block].lines[i][2] = k.name
                               /\ ret[block].lines[i][4] = heur[k.symbol].basis[item]
        IN  /\ \A k \in DOMAIN glob : k \in DOMAIN ret /\ ret[k] = glob[k]
            /\ DOMAIN ret \subseteq DOMAIN glob \cup blocks \cup {"pao-split-tail-norm"}
            /\ keyed("%block pao-polarization-scheme", "polarization")
            /\ keyed("%block pao-basis-sizes", "size")
            /\ ("%block pao-basis" \in DOMAIN ret) <=> (on("pao-block") # {})
            /\ on("pao-block") # {} =>
                  /\ Len(ret["%block pao-basis"].lines) = Cardinality(on("pao-block"))
                  /\ \A k \in on("pao-block") :
                        \E i \in 1..Len(ret["%block pao-basis"].lines) :
                           ret["%block pao-basis"].lines[i][1] =
                              IF k.name # k.symbol
                              THEN StrReplace(heur[k.symbol].basis["pao-block"],
                                              Chars(k.symbol), Chars(k.name))
                              ELSE heur[k.symbol].basis["pao-block"]
            /\ ("pao-split-tail-norm" \in DOMAIN ret /\ ret["pao-split-tail-norm"] = TRUE)
                  <=> \/ on("split-tail-norm") # {}
                      \/ ("pao-split-tail-norm" \in DOMAIN glob
                          /\ glob["pao-split-tail-norm"] = TRUE)
            /\ matched = {} => ret = glob

C9_Witness ==
    /\ SiestaReturned("_get_basis")
    /\ Len(args.structure.kinds) = 2
    /\ args.structure.kinds[1].name = "C1"
    /\ args.structure.kinds[2].name = "C"
    /\ "%block pao-basis" \in DOMAIN ret
    /\ Len(ret["%block pao-basis"].lines) = 2
    /\ ret["%block pao-basis"].lines[1][1] = <<"C", "1", " ", "2">>
    /\ ret["%block pao-basis"].lines[2][1] = <<"C", " ", "2">>
    /\ "%block pao-polarization-scheme" \in DOMAIN ret
    /\ "pao-split-tail-norm" \notin DOMAIN ret

\* C10: no call of _construct_builder, _get_param, _get_basis, _get_kpoints
\* or _get_pseudo_fam, returning or raising, changes the registry loaded at
\* construction; so a call gives the parameters and the basis that the same
\* call gives on a fresh instance.
C10_RegistryNeverModified ==
    /\ SiestaInstance => protocols = loaded
    /\ SiestaReturned("_construct_builder") =>
          LET res == IF ext.seekpath = <<>> THEN NoSeekpath ELSE ext.seekpath[1].result
              fresh == SiestaConstructBuilder(loaded, Without(args, "families"),
                                              args.families, res)
          IN  /\ fresh.exc = "none"
              /\ fresh.ret.parameters = ret.parameters
              /\ fresh.ret.basis = ret.basis
    /\ SiestaReturned("_get_param") =>
          ret = GetParam(loaded, args.key, args.structure).obj.d
    /\ SiestaReturned("_get_basis") =>
          ret = GetBasis(loaded, args.key, args.structure).d

C10_Witness ==
    /\ SiestaReturned("_construct_builder")
    /\ args.spin_type = "COLLINEAR"
    /\ Given(args, "magnetization_per_site")
    /\ protocols = loaded
    /\ "spin" \notin DOMAIN protocols[UsedProtocol].parameters
    /\ "spin" \in DOMAIN ret.parameters.dict
    /\ "mesh-cutoff" \in DOMAIN protocols[UsedProtocol].parameters
    /\ ret.parameters.dict["mesh-cutoff"] # protocols[UsedProtocol].parameters["mesh-cutoff"]
    /\ "%block pao-basis-sizes" \in DOMAIN ret.basis.dict

====
